---- MODULE Spec2Model ----
(***************************************************************************)
(* Christoffel's private-chef menu app (React Native).                     *)
(*                                                                         *)
(* The model covers the AsyncStorage-backed item collection, the price     *)
(* utilities, and the handlers of MenuScreen, AddItemScreen, FilterScreen  *)
(* and WelcomeScreen that read and write the collection.                   *)
(*                                                                         *)
(* Representation.                                                         *)
(*  - A text (a JS string) is a sequence of one-character strings.         *)
(*  - A JS number is a record [kind, milli]: kind "finite" with milli the  *)
(*    value in thousandths (1250 is 1.25), or kind "NaN", "Infinity",      *)
(*    "-Infinity" (and "undefined" or "null" where a value is missing)     *)
(*    with milli 0.  The texts of the model carry at most three fraction   *)
(*    digits, so every finite number that occurs is an exact count of      *)
(*    thousandths.                                                         *)
(*  - Where the binary64 value itself matters (rounding, sums, quotients)  *)
(*    a number is a record [kind |-> "double", neg, man, exp]: the value   *)
(*    is (-1)^neg * man * 2^exp, man a 53-bit natural written in limbs of  *)
(*    20 bits, least significant first; zero has the empty mantissa.       *)
(*    Arithmetic rounds to nearest, ties to even, as IEEE 754 does.        *)
(*  - A menu item is a record [id, name, description, price, category].    *)
(***************************************************************************)
EXTENDS Integers, Sequences, FiniteSets, TLC

VARIABLES
    store,          \* AsyncStorage value under the menu key: "null" or a sequence of items
    clock,          \* Date.now()
    stack,          \* navigation stack of route names, top last
    form,           \* AddItemScreen state (name, description, price, category, isEditing, editingId)
    menuItems,      \* MenuScreen state: menuItems
    averagePrices,  \* MenuScreen state: averagePrices
    stats,          \* menuCalculations globals: totalMenuItems, totalMenuValue, lastCalculationTime
    filterMenu,     \* FilterScreen state: menuItems
    filter,         \* FilterScreen state: selectedCourse, searchQuery, filteredItems
    alert,          \* the Alert dialog on screen: [kind, arg]
    called,         \* storage functions invoked by the handler that ran last, with
                    \* a mark for the one that threw a StorageError
    pending,        \* storage calls in flight (used by the interleaved specification)
    calc            \* a direct call of a utility function: its arguments and its result

vars == <<store, clock, stack, form, menuItems, averagePrices, stats,
          filterMenu, filter, alert, called, pending, calc>>

----------------------------------------------------------------------------
(* Bounds of the model *)

MaxItems == 2
MaxClock == 2
MaxPending == 2
MaxMilli == 135

----------------------------------------------------------------------------
(* Texts *)

Digits == <<"0", "1", "2", "3", "4", "5", "6", "7", "8", "9">>

IsDigit(c) == \E i \in 1..10 : Digits[i] = c

DigitVal(c) == (CHOOSE i \in 1..10 : Digits[i] = c) - 1

IsSpace(c) == c \in {" ", "\t", "\n"}

RECURSIVE TrimStart(_)
TrimStart(s) ==
    IF s # <<>> /\ IsSpace(Head(s)) THEN TrimStart(Tail(s)) ELSE s

RECURSIVE TrimEnd(_)
TrimEnd(s) ==
    IF s # <<>> /\ IsSpace(s[Len(s)]) THEN TrimEnd(SubSeq(s, 1, Len(s) - 1)) ELSE s

\* String.prototype.trim
Trim(s) == TrimEnd(TrimStart(s))

RECURSIVE NatToText(_)
NatToText(n) ==
    IF n < 10 THEN <<Digits[n + 1]>>
    ELSE NatToText(n \div 10) \o <<Digits[(n % 10) + 1]>>

RECURSIVE Pow10(_)
Pow10(n) == IF n = 0 THEN 1 ELSE 10 * Pow10(n - 1)

RECURSIVE DigitsVal(_)
DigitsVal(ds) ==
    IF ds = <<>> THEN 0
    ELSE 10 * DigitsVal(SubSeq(ds, 1, Len(ds) - 1)) + DigitVal(ds[Len(ds)])

RECURSIVE DigitPrefix(_)
\* the longest prefix of s made of decimal digits
DigitPrefix(s) ==
    IF s # <<>> /\ IsDigit(Head(s)) THEN <<Head(s)>> \o DigitPrefix(Tail(s)) ELSE <<>>

Drop(s, n) == SubSeq(s, n + 1, Len(s))

StartsWith(s, p) == Len(s) >= Len(p) /\ SubSeq(s, 1, Len(p)) = p

InfinityText == <<"I", "n", "f", "i", "n", "i", "t", "y">>

----------------------------------------------------------------------------
(* Numbers *)

Fin(m) == [kind |-> "finite", milli |-> m]
NaN == [kind |-> "NaN", milli |-> 0]
PosInfinity == [kind |-> "Infinity", milli |-> 0]
NegInfinity == [kind |-> "-Infinity", milli |-> 0]
Undefined == [kind |-> "undefined", milli |-> 0]
Null == [kind |-> "null", milli |-> 0]

IsNaN(v) == v.kind \in {"NaN", "undefined"}

Negate(v) ==
    CASE v.kind = "Infinity" -> NegInfinity
      [] v.kind = "-Infinity" -> PosInfinity
      [] v.kind = "finite" -> Fin(0 - v.milli)
      [] OTHER -> NaN

\* v < 0, v <= 0, v >= 0 as JS compares them (every comparison with NaN is false,
\* null compares as 0)
LtZero(v) ==
    \/ v.kind = "finite" /\ v.milli < 0
    \/ v.kind = "double" /\ v.neg
    \/ v.kind = "-Infinity"
LeZero(v) ==
    \/ v.kind = "finite" /\ v.milli <= 0
    \/ v.kind = "double" /\ (v.neg \/ v.man = <<>>)
    \/ v.kind = "-Infinity"
    \/ v.kind = "null"
GeZero(v) ==
    \/ v.kind = "finite" /\ v.milli >= 0
    \/ v.kind = "double" /\ ~v.neg
    \/ v.kind = "Infinity"
    \/ v.kind = "null"

\* the fraction digits fs as thousandths (texts of the model have at most three of them)
FracVal(fs) ==
    LET kept == SubSeq(fs, 1, IF Len(fs) < 3 THEN Len(fs) ELSE 3)
    IN  DigitsVal(kept) * Pow10(3 - Len(kept))

\* the exponent of the ExponentPart that s starts with, 0 when it starts with none
ExponentPart(s) ==
    IF s # <<>> /\ Head(s) \in {"e", "E"}
    THEN LET r == Tail(s)
             signed == r # <<>> /\ Head(r) \in {"+", "-"}
             ds == DigitPrefix(IF signed THEN Tail(r) ELSE r)
         IN  IF ds = <<>> THEN 0
             ELSE IF signed /\ Head(r) = "-" THEN 0 - DigitsVal(ds) ELSE DigitsVal(ds)
    ELSE 0

\* mantissa (in thousandths) times ten to the exponent, as a double: beyond the
\* largest decimal exponent of a finite double, 308, the value is Infinity
ScaleByExponent(mant, e) ==
    IF mant = 0 THEN Fin(0)
    ELSE IF e > 308 THEN PosInfinity
    ELSE IF e >= 0 THEN Fin(mant * Pow10(e))
    ELSE Fin(mant \div Pow10(0 - e))

\* the unsigned StrDecimalLiteral that s starts with, NaN when it starts with none
ParseUnsigned(s) ==
    IF StartsWith(s, InfinityText) THEN PosInfinity
    ELSE LET is == DigitPrefix(s)
             r1 == Drop(s, Len(is))
             dot == r1 # <<>> /\ Head(r1) = "."
             fs == IF dot THEN DigitPrefix(Tail(r1)) ELSE <<>>
             r2 == IF dot THEN Drop(r1, 1 + Len(fs)) ELSE r1
         IN  IF is = <<>> /\ fs = <<>> THEN NaN
             ELSE ScaleByExponent(DigitsVal(is) * 1000 + FracVal(fs), ExponentPart(r2))

\* the global parseFloat
ParseFloat(s) ==
    LET t == TrimStart(s)
    IN  IF t # <<>> /\ Head(t) = "-" THEN Negate(ParseUnsigned(Tail(t)))
        ELSE IF t # <<>> /\ Head(t) = "+" THEN ParseUnsigned(Tail(t))
        ELSE ParseUnsigned(t)

----------------------------------------------------------------------------
(* Binary64 arithmetic.  A natural number of any size is a sequence of     *)
(* limbs in base 2^20, least significant first, the last limb nonzero      *)
(* (<<>> is 0).  A double is [kind |-> "double", neg, man, exp]: the value *)
(* (-1)^neg * man * 2^exp with man a natural number of exactly 53 bits;    *)
(* zero is man <<>>, exp 0, neg FALSE (-0 and 0 are equal in JS).          *)
(* Subnormals are out of the model's range.                                *)

Limb == 2^20

RECURSIVE Big(_)
\* the natural number n
Big(n) == IF n = 0 THEN <<>> ELSE <<n % Limb>> \o Big(n \div Limb)

RECURSIVE Trimmed(_)
Trimmed(x) ==
    IF x # <<>> /\ x[Len(x)] = 0 THEN Trimmed(SubSeq(x, 1, Len(x) - 1)) ELSE x

RECURSIVE AddCarry(_, _, _)
AddCarry(x, y, c) ==
    IF x = <<>> /\ y = <<>> THEN Big(c)
    ELSE LET t == (IF x = <<>> THEN 0 ELSE Head(x)) + (IF y = <<>> THEN 0 ELSE Head(y)) + c
         IN  <<t % Limb>> \o AddCarry(IF x = <<>> THEN <<>> ELSE Tail(x),
                                      IF y = <<>> THEN <<>> ELSE Tail(y),
                                      t \div Limb)

AddBig(x, y) == AddCarry(x, y, 0)

RECURSIVE SubBorrow(_, _, _)
\* x - y - c for x >= y + c
SubBorrow(x, y, c) ==
    IF x = <<>> THEN <<>>
    ELSE LET t == Head(x) - (IF y = <<>> THEN 0 ELSE Head(y)) - c
         IN  <<IF t < 0 THEN t + Limb ELSE t>>
             \o SubBorrow(Tail(x), IF y = <<>> THEN <<>> ELSE Tail(y), IF t < 0 THEN 1 ELSE 0)

SubBig(x, y) == Trimmed(SubBorrow(x, y, 0))

RECURSIVE LessFromTop(_, _)
\* x < y for x and y with the same number of limbs
LessFromTop(x, y) ==
    x # <<>> /\ LET n == Len(x)
                IN  x[n] < y[n]
                    \/ (x[n] = y[n] /\ LessFromTop(SubSeq(x, 1, n - 1), SubSeq(y, 1, n - 1)))

LessBig(x, y) == Len(x) < Len(y) \/ (Len(x) = Len(y) /\ LessFromTop(x, y))

RECURSIVE MulCarry(_, _, _)
MulCarry(x, n, c) ==
    IF x = <<>> THEN Big(c)
    ELSE <<(Head(x) * n + c) % Limb>> \o MulCarry(Tail(x), n, (Head(x) * n + c) \div Limb)

\* x * n for n up to 2^10
MulSmall(x, n) == IF n = 0 THEN <<>> ELSE MulCarry(x, n, 0)

\* one step of the long division: p is the result for the higher limbs, h the next limb
DivStep(p, h, n) ==
    [q |-> <<(p.r * Limb + h) \div n>> \o p.q, r |-> (p.r * Limb + h) % n]

RECURSIVE DivRem(_, _)
\* x divided by n, for n from 1 to 2^10: the quotient (untrimmed) and the remainder
DivRem(x, n) ==
    IF x = <<>> THEN [q |-> <<>>, r |-> 0]
    ELSE DivStep(DivRem(Tail(x), n), Head(x), n)

\* the number of bits of x
BitLen(x) ==
    IF x = <<>> THEN 0
    ELSE 20 * (Len(x) - 1) + CHOOSE k \in 1..20 : 2^(k - 1) <= x[Len(x)] /\ x[Len(x)] < 2^k

RECURSIVE ShiftLeft(_, _)
\* x * 2^k
ShiftLeft(x, k) ==
    IF x = <<>> \/ k = 0 THEN x
    ELSE IF k >= 20 THEN <<0>> \o ShiftLeft(x, k - 20)
    ELSE ShiftLeft(MulSmall(x, 2^(IF k > 10 THEN 10 ELSE k)), IF k > 10 THEN k - 10 ELSE 0)

\* the shift s, having lost a nonzero bit if lost holds
AlsoLost(s, lost) == [q |-> s.q, lost |-> s.lost \/ lost]

RECURSIVE ShiftRight(_, _)
RECURSIVE ShiftRightAfter(_, _)
\* x divided by 2^k: the quotient, and whether a nonzero bit was shifted out
ShiftRight(x, k) ==
    IF x = <<>> \/ k = 0 THEN [q |-> x, lost |-> FALSE]
    ELSE IF k >= 20 THEN AlsoLost(ShiftRight(Tail(x), k - 20), Head(x) # 0)
    ELSE ShiftRightAfter(DivRem(x, 2^(IF k > 10 THEN 10 ELSE k)), IF k > 10 THEN k - 10 ELSE 0)

\* the shift by k more bits of the division d
ShiftRightAfter(d, k) == AlsoLost(ShiftRight(Trimmed(d.q), k), d.r # 0)

\* x divided by 2, rounded down
Half(x) == Trimmed(DivRem(x, 2).q)

IsOdd(x) == x # <<>> /\ Head(x) % 2 = 1

ZeroDouble == [kind |-> "double", neg |-> FALSE, man |-> <<>>, exp |-> 0]

\* the double of value (-1)^neg * x * 2^e for x of 53 bits, Infinity from 2^1024 on
Double(neg, x, e) ==
    IF e + 53 > 1024 THEN [kind |-> IF neg THEN "-Infinity" ELSE "Infinity", milli |-> 0]
    ELSE [kind |-> "double", neg |-> neg, man |-> x, exp |-> e]

\* the double (-1)^neg * m * 2^e for m of 53 bits, or of 54 bits with the last one 0
Normal(neg, m, e) ==
    IF BitLen(m) = 54 THEN Double(neg, Half(m), e + 1) ELSE Double(neg, m, e)

\* keep is the 53 leading bits, half the bit after them, more whether anything nonzero
\* follows that bit: round up above the tie, and on the tie when keep is odd
RoundKept(neg, keep, half, more, e) ==
    Normal(neg, IF half /\ (more \/ IsOdd(keep)) THEN AddBig(keep, Big(1)) ELSE keep, e)

\* s is the 54 leading bits of the number and whether a nonzero bit follows them
RoundShifted(neg, s, e, sticky) == RoundKept(neg, Half(s.q), IsOdd(s.q), s.lost \/ sticky, e)

\* x has n bits
RoundBits(neg, x, e, sticky, n) ==
    IF n = 0 THEN ZeroDouble
    ELSE IF n <= 53 THEN Double(neg, ShiftLeft(x, 53 - n), e - (53 - n))
    ELSE RoundShifted(neg, ShiftRight(x, n - 54), e + (n - 53), sticky)

\* round to nearest, ties to even: the double nearest to (-1)^neg * (x + f) * 2^e,
\* where f is a fraction in [0, 1) that is nonzero exactly when sticky holds (sticky
\* is only passed with x longer than 53 bits)
RoundNearestEven(neg, x, e, sticky) == RoundBits(neg, x, e, sticky, BitLen(x))

\* the bits to add to a number of n bits to reach 66
Extension(n) == IF n < 66 THEN 66 - n ELSE 0

\* the double nearest to (-1)^neg * (d.q + d.r / n) * 2^e, for the division d by n
RoundDivision(neg, d, e) == RoundNearestEven(neg, Trimmed(d.q), e, d.r # 0)

QuotientExtended(neg, x, e, n, k) == RoundDivision(neg, DivRem(ShiftLeft(x, k), n), e - k)

\* the double nearest to (-1)^neg * x * 2^e / n for n from 1 to 2^10: x is first
\* extended to 66 bits, so that the quotient has more than 54
Quotient(neg, x, e, n) == QuotientExtended(neg, x, e, n, Extension(BitLen(x)))

RECURSIVE DecBig(_)
\* the natural number written by the decimal digits ds
DecBig(ds) ==
    IF ds = <<>> THEN <<>>
    ELSE AddBig(MulSmall(DecBig(SubSeq(ds, 1, Len(ds) - 1)), 10), Big(DigitVal(ds[Len(ds)])))

\* the double a decimal literal denotes: digits / 10^scale, scale at most 3
Dec(neg, digits, scale) == Quotient(neg, DecBig(digits), 0, Pow10(scale))

\* x * n and x / n on doubles, n from 1 to 2^10
MulDouble(x, n) == RoundNearestEven(x.neg, MulSmall(x.man, n), x.exp, FALSE)
DivDouble(x, n) == Quotient(x.neg, x.man, x.exp, n)

Least(m, n) == IF m < n THEN m ELSE n

\* (-1)^an * x * 2^e + (-1)^bn * y * 2^e: the larger magnitude gives the sign
AddAligned(an, x, bn, y, e) ==
    RoundNearestEven(IF an = bn \/ ~LessBig(x, y) THEN an ELSE bn,
                     IF an = bn THEN AddBig(x, y)
                     ELSE IF LessBig(x, y) THEN SubBig(y, x) ELSE SubBig(x, y),
                     e, FALSE)

\* a + b on doubles
AddDouble(a, b) ==
    IF a.man = <<>> THEN b
    ELSE IF b.man = <<>> THEN a
    ELSE AddAligned(a.neg, ShiftLeft(a.man, a.exp - Least(a.exp, b.exp)),
                    b.neg, ShiftLeft(b.man, b.exp - Least(a.exp, b.exp)),
                    Least(a.exp, b.exp))

\* s is the magnitude in halves and whether a nonzero bit follows: the magnitude goes
\* up from the half on for a positive number, only above the half for a negative one
RoundHalves(neg, s) ==
    RoundNearestEven(neg,
                     IF IsOdd(s.q) /\ (~neg \/ s.lost) THEN AddBig(Half(s.q), Big(1))
                     ELSE Half(s.q),
                     0, FALSE)

\* Math.round on a double: floor(x + 0.5), so a tie goes toward +Infinity
MathRound(x) ==
    IF x.exp >= 0 THEN x
    ELSE IF x.exp < -54 THEN ZeroDouble
    ELSE RoundHalves(x.neg, ShiftRight(x.man, (0 - x.exp) - 1))

RECURSIVE SmallInt(_)
\* the natural number x as an integer (x below 2^31)
SmallInt(x) == IF x = <<>> THEN 0 ELSE Head(x) + Limb * SmallInt(Tail(x))

\* the double that the decimal number v (a count of thousandths) denotes
ToDouble(v) ==
    IF v.kind = "finite"
    THEN Quotient(v.milli < 0, Big(IF v.milli < 0 THEN 0 - v.milli ELSE v.milli), 0, 1000)
    ELSE v

\* the integer-valued double x as an integer
IntOfDouble(x) ==
    LET a == SmallInt(ShiftRight(x.man, 0 - x.exp).q)
    IN  IF x.neg THEN 0 - a ELSE a

\* Math.round(price * 100) for the price of m thousandths, computed in binary64
RoundedAmount(m) == IntOfDouble(MathRound(MulDouble(ToDouble(Fin(m)), 100)))

\* Math.round(sum / count * 100) for the sum of m thousandths, computed in binary64
QuotientRounded(m, n) ==
    IntOfDouble(MathRound(MulDouble(DivDouble(ToDouble(Fin(m)), n), 100)))

\* The amounts (in thousandths) and the counts that the price texts and the sample
\* collections below lead to: their roundings are computed once and looked up, every
\* other amount is computed where it occurs.
Amounts == {0, 1250, 2000, 3250, 12567, 12570, 25140}
Divisors == 1..3
RoundedAmounts == [m \in Amounts |-> RoundedAmount(m)]
RoundedQuotients == [m \in Amounts, n \in Divisors |-> QuotientRounded(m, n)]

\* Math.round(price * 100) for the price of m thousandths
MathRoundTenths(m) == IF m \in Amounts THEN RoundedAmounts[m] ELSE RoundedAmount(m)

\* Math.round(p) / 100 for the product p, which may have overflowed to an infinity
RoundedProduct(p) == IF p.kind = "double" THEN DivDouble(MathRound(p), 100) ELSE p

\* priceUtils.roundPrice: Math.round(price * 100) / 100
RoundPrice(price) ==
    CASE price.kind = "finite" -> Fin(MathRoundTenths(price.milli) * 10)
      [] price.kind = "double" -> RoundedProduct(MulDouble(price, 100))
      [] price.kind = "undefined" -> NaN
      [] OTHER -> price

\* priceUtils.parsePrice
ParsePrice(priceString) ==
    LET parsed == ParseFloat(priceString)
    IN  IF IsNaN(parsed) \/ LtZero(parsed) THEN Fin(0) ELSE RoundPrice(parsed)

\* isValidPrice without the test against null
IsValidPriceNullAllowed(price) ==
    price.kind # "undefined" /\ ~IsNaN(price) /\ GeZero(price)

\* priceUtils.isValidPrice
IsValidPrice(price) ==
    price.kind # "undefined" /\ price.kind # "null" /\ ~IsNaN(price) /\ GeZero(price)

RECURSIVE StripZeros(_)
StripZeros(ds) ==
    IF ds # <<>> /\ ds[Len(ds)] = "0" THEN StripZeros(SubSeq(ds, 1, Len(ds) - 1)) ELSE ds

RECURSIVE PadLeft(_, _)
PadLeft(ds, n) == IF Len(ds) >= n THEN ds ELSE PadLeft(<<"0">> \o ds, n)

\* Number.prototype.toString
NumToText(v) ==
    CASE v.kind = "Infinity" -> InfinityText
      [] v.kind = "-Infinity" -> <<"-">> \o InfinityText
      [] v.kind = "finite" ->
            LET a == IF v.milli < 0 THEN 0 - v.milli ELSE v.milli
                fs == StripZeros(PadLeft(NatToText(a % 1000), 3))
            IN  (IF v.milli < 0 THEN <<"-">> ELSE <<>>)
                \o NatToText(a \div 1000)
                \o (IF fs = <<>> THEN <<>> ELSE <<".">> \o fs)
      [] OTHER -> <<"N", "a", "N">>

RECURSIVE BigToText(_)
\* the decimal digits of the division by ten d of a natural number
DigitsOfDivision(d) == BigToText(Trimmed(d.q)) \o <<Digits[d.r + 1]>>

\* the decimal digits of the natural number x, none for 0
BigToText(x) == IF x = <<>> THEN <<>> ELSE DigitsOfDivision(DivRem(x, 10))

\* Number.prototype.toFixed(2), step "let n be an integer for which n / 100 - x is as
\* close to zero as possible; if there are two such n, pick the larger n", for the
\* magnitude x of a double: floor(x * 100 + 1/2) in exact arithmetic
Hundredths(x) ==
    IF x.exp >= 0 THEN ShiftLeft(MulSmall(x.man, 100), x.exp)
    ELSE Half(AddBig(ShiftRight(MulSmall(x.man, 100), (0 - x.exp) - 1).q, Big(1)))

\* the digits ds of n (at least three) with the point before the last two, and the sign
FixedText(neg, ds) ==
    (IF neg THEN <<"-">> ELSE <<>>)
    \o SubSeq(ds, 1, Len(ds) - 2) \o <<".">> \o SubSeq(ds, Len(ds) - 1, Len(ds))

\* Number.prototype.toFixed(2); the doubles of the model are below 10^21, from where
\* on toFixed writes the number as toString does
ToFixed2(x) ==
    CASE x.kind = "double" -> FixedText(x.neg, PadLeft(BigToText(Hundredths(x)), 3))
      [] x.kind = "finite" ->
            FixedText(x.milli < 0, PadLeft(BigToText(Hundredths(ToDouble(x))), 3))
      [] OTHER -> NumToText(x)

\* formatPrice that writes every value with toFixed
FormatPriceUnguarded(price) == <<"R">> \o ToFixed2(price)

\* priceUtils.formatPrice
FormatPrice(price) ==
    IF price.kind \in {"undefined", "null"} \/ IsNaN(price)
    THEN <<"R", "0", ".", "0", "0">>
    ELSE <<"R">> \o ToFixed2(price)

\* a + b: two decimal numbers add exactly (the decimal sums of the screens are far
\* from a tie of roundPrice), two doubles add as binary64
Add(a, b) ==
    CASE IsNaN(a) \/ IsNaN(b) -> NaN
      [] a.kind = "finite" /\ b.kind = "finite" -> Fin(a.milli + b.milli)
      [] a.kind \in {"finite", "double"} /\ b.kind \in {"finite", "double"} ->
            AddDouble(ToDouble(a), ToDouble(b))
      [] a.kind \in {"finite", "double"} -> b
      [] b.kind \in {"finite", "double"} -> a
      [] a.kind = b.kind -> a
      [] OTHER -> NaN

\* roundPrice(sum / count) for count > 0
RoundedQuotient(sum, count) ==
    CASE sum.kind = "finite" ->
            Fin(10 * (IF sum.milli \in Amounts /\ count \in Divisors
                      THEN RoundedQuotients[sum.milli, count]
                      ELSE QuotientRounded(sum.milli, count)))
      [] OTHER -> RoundPrice(IF sum.kind = "double" THEN DivDouble(sum, count) ELSE sum)

----------------------------------------------------------------------------
(* Menu items and the persisted collection (utils/storage) *)

Categories == {"appetizers", "mains", "desserts", "beverages"}

Ids(items) == {items[i].id : i \in 1..Len(items)}

\* the value AsyncStorage holds under the menu key before anything is stored
EmptyStore == [set |-> FALSE, items |-> <<>>]

\* loadMenuItems: the stored collection, empty when nothing has been stored yet
LoadMenuItems(st) == IF st.set THEN st.items ELSE <<>>

\* Upsert without the lookup by id: always append
UpsertAppendOnly(items, item) == Append(items, item)

\* replace the entry whose id matches, otherwise append
Upsert(items, item) ==
    IF item.id \in Ids(items)
    THEN LET k == CHOOSE i \in 1..Len(items) :
                      /\ items[i].id = item.id
                      /\ \A j \in 1..(i - 1) : items[j].id # item.id
         IN  [items EXCEPT ![k] = item]
    ELSE Append(items, item)

\* RemoveById as items.splice(items.findIndex(...), 1): an absent id gives index -1,
\* and the splice then removes the last entry
RemoveBySplice(items, id) ==
    IF id \in Ids(items)
    THEN SelectSeq(items, LAMBDA it : it.id # id)
    ELSE SubSeq(items, 1, Len(items) - 1)

RECURSIVE RemoveById(_, _)
\* the entries whose id differs from id, in order
RemoveById(items, id) ==
    IF items = <<>> THEN <<>>
    ELSE IF Head(items).id = id THEN RemoveById(Tail(items), id)
    ELSE <<Head(items)>> \o RemoveById(Tail(items), id)

\* saveMenuItem: load the collection, upsert by id, write the collection back
SaveMenuItem(st, item) == [set |-> TRUE, items |-> Upsert(LoadMenuItems(st), item)]

\* deleteMenuItem: load the collection, remove by id, write the collection back
DeleteMenuItem(st, id) == [set |-> TRUE, items |-> RemoveById(LoadMenuItems(st), id)]

----------------------------------------------------------------------------
(* utils/menuCalculations *)

RECURSIVE SumPrices(_, _)
\* the running sum of f(price) over items, left to right from 0
SumPrices(items, orZero) ==
    IF items = <<>> THEN Fin(0)
    ELSE LET last == items[Len(items)].price
             p == IF last.kind = "undefined" \/ (orZero /\ (IsNaN(last) \/ last = Fin(0)))
                  THEN Fin(0) ELSE last
         IN  Add(SumPrices(SubSeq(items, 1, Len(items) - 1), orZero), p)

InCategory(items, c) == SelectSeq(items, LAMBDA it : it.category = c)

\* calculateAveragePriceByCourse with an entry for every category, 0 for an empty one
CalculateAveragePriceByCourseZeroFilled(items) ==
    [c \in {"appetizers", "mains", "desserts", "beverages"} |->
        IF InCategory(items, c) = <<>> THEN Fin(0)
        ELSE RoundedQuotient(SumPrices(InCategory(items, c), FALSE), Len(InCategory(items, c)))]

\* calculateAveragePriceByCourse
CalculateAveragePriceByCourse(items) ==
    [c \in {items[i].category : i \in 1..Len(items)} |->
        RoundedQuotient(SumPrices(InCategory(items, c), FALSE), Len(InCategory(items, c)))]

NoStats == [totalMenuItems |-> 0, totalMenuValue |-> Fin(0), lastCalculationTime |-> 0]

\* updateGlobalStatistics counting only the items that carry a price
UpdateGlobalStatisticsPricedOnly(items, now) ==
    [totalMenuItems |-> Len(SelectSeq(items, LAMBDA it : it.price # Undefined)),
     totalMenuValue |-> RoundPrice(SumPrices(items, TRUE)),
     lastCalculationTime |-> now]

\* updateGlobalStatistics
UpdateGlobalStatistics(items, now) ==
    [totalMenuItems |-> Len(items),
     totalMenuValue |-> RoundPrice(SumPrices(items, TRUE)),
     lastCalculationTime |-> now]

\* getGlobalStatistics dividing without the test for an empty menu (0 / 0 is NaN)
GetGlobalStatisticsUnguarded(st) ==
    [totalMenuItems |-> st.totalMenuItems,
     totalMenuValue |-> RoundPrice(st.totalMenuValue),
     lastCalculationTime |-> st.lastCalculationTime,
     averageItemPrice |->
        IF st.totalMenuItems > 0
        THEN RoundedQuotient(st.totalMenuValue, st.totalMenuItems)
        ELSE NaN]

\* getGlobalStatistics
GetGlobalStatistics(st) ==
    [totalMenuItems |-> st.totalMenuItems,
     totalMenuValue |-> RoundPrice(st.totalMenuValue),
     lastCalculationTime |-> st.lastCalculationTime,
     averageItemPrice |->
        IF st.totalMenuItems > 0
        THEN RoundedQuotient(st.totalMenuValue, st.totalMenuItems)
        ELSE Fin(0)]

Uppers == <<"A", "B", "C", "D", "E", "F", "G", "H", "I", "J", "K", "L", "M",
            "N", "O", "P", "Q", "R", "S", "T", "U", "V", "W", "X", "Y", "Z">>

Lowers == <<"a", "b", "c", "d", "e", "f", "g", "h", "i", "j", "k", "l", "m",
            "n", "o", "p", "q", "r", "s", "t", "u", "v", "w", "x", "y", "z">>

\* String.prototype.toLowerCase
ToLowerCase(s) ==
    [i \in 1..Len(s) |->
        IF \E k \in 1..26 : Uppers[k] = s[i]
        THEN Lowers[CHOOSE k \in 1..26 : Uppers[k] = s[i]]
        ELSE s[i]]

\* String.prototype.includes
Includes(s, t) == \E i \in 0..(Len(s) - Len(t)) : SubSeq(s, i + 1, i + Len(t)) = t

\* an absent optional text (item.description); no text has an element of more than
\* one character
NoText == <<"undefined">>

\* searchMenuItems with a blank term giving no item
SearchMenuItemsBlankNone(items, searchTerm) ==
    LET lowerSearchTerm == Trim(ToLowerCase(searchTerm))
    IN  SelectSeq(items, LAMBDA item :
            /\ lowerSearchTerm # <<>>
            /\ \/ Includes(ToLowerCase(item.name), lowerSearchTerm)
               \/ item.description # NoText
                  /\ Includes(ToLowerCase(item.description), lowerSearchTerm))

\* searchMenuItems matching the term as typed, untrimmed
SearchMenuItemsUntrimmed(items, searchTerm) ==
    IF Trim(searchTerm) = <<>> THEN items
    ELSE SelectSeq(items, LAMBDA item :
            \/ Includes(ToLowerCase(item.name), ToLowerCase(searchTerm))
            \/ item.description # NoText
               /\ Includes(ToLowerCase(item.description), ToLowerCase(searchTerm)))

\* searchMenuItems
SearchMenuItems(items, searchTerm) ==
    IF Trim(searchTerm) = <<>> THEN items
    ELSE LET lowerSearchTerm == Trim(ToLowerCase(searchTerm))
         IN  SelectSeq(items, LAMBDA item :
                \/ Includes(ToLowerCase(item.name), lowerSearchTerm)
                \/ item.description # NoText
                   /\ Includes(ToLowerCase(item.description), lowerSearchTerm))

----------------------------------------------------------------------------
(* What the user can type *)

NameTexts == {<<>>, <<" ">>, <<" ", "A">>}

DescriptionTexts == {<<>>, <<" ">>}

PriceTexts ==
    { <<>>,
      <<" ">>,
      <<"a", "b", "c">>,
      <<"-", "5">>,
      <<"0">>,
      <<"1", "2", ".", "5", "6", "7">>,
      <<"1", "e", "9", "9", "9">> }

----------------------------------------------------------------------------
(* Screens *)

Top == stack[Len(stack)]

NoAlert == [kind |-> "none", arg |-> <<>>]

Idle == alert = NoAlert /\ pending = <<>>

\* AddItemScreen's useState initial values (lines 34-39); editingId null is <<>>
InitialForm ==
    [name |-> <<>>, description |-> <<>>, price |-> <<>>, category |-> "appetizers",
     isEditing |-> FALSE, editingId |-> <<>>]

\* AddItemScreen's pre-fill effect for route.params.item
PrefilledForm(item) ==
    [name |-> item.name,
     description |-> item.description,
     price |-> NumToText(IF item.price.kind = "undefined" THEN Fin(0) ELSE item.price),
     category |-> item.category,
     isEditing |-> TRUE,
     editingId |-> item.id]

\* BuildMenuItem with the id always taken from editingId
BuildMenuItemEditingId(f, now) ==
    [id |-> f.editingId,
     name |-> Trim(f.name),
     description |-> Trim(f.description),
     price |-> ParsePrice(f.price),
     category |-> f.category]

\* BuildMenuItem with the id always taken from Date.now()
BuildMenuItemFreshId(f, now) ==
    [id |-> NatToText(now),
     name |-> Trim(f.name),
     description |-> Trim(f.description),
     price |-> ParsePrice(f.price),
     category |-> f.category]

\* the object handleSave builds
BuildMenuItem(f, now) ==
    [id |-> IF f.isEditing THEN f.editingId ELSE NatToText(now),
     name |-> Trim(f.name),
     description |-> Trim(f.description),
     price |-> ParsePrice(f.price),
     category |-> f.category]

\* handleSave's two validation steps
MissingFields(f) == Trim(f.name) = <<>> \/ Trim(f.price) = <<>>
\* BadPrice without the "|| priceNumber <= 0" test
BadPriceInvalidOnly(f) == ~IsValidPrice(ParsePrice(f.price))

BadPrice(f) == ~IsValidPrice(ParsePrice(f.price)) \/ LeZero(ParsePrice(f.price))

\* loadItems adding what it loaded to the list instead of replacing the list
LoadItemsAppending(st) ==
    /\ menuItems' = menuItems \o LoadMenuItems(st)
    /\ averagePrices' = CalculateAveragePriceByCourse(LoadMenuItems(st))
    /\ stats' = UpdateGlobalStatistics(LoadMenuItems(st), clock)

\* loadItems without its call of updateGlobalStatistics
LoadItemsNoRecompute(st) ==
    /\ menuItems' = LoadMenuItems(st)
    /\ averagePrices' = CalculateAveragePriceByCourse(LoadMenuItems(st))
    /\ stats' = stats

\* MenuScreen.loadItems run to completion on the stored value st
LoadItems(st) ==
    /\ menuItems' = LoadMenuItems(st)
    /\ averagePrices' = CalculateAveragePriceByCourse(LoadMenuItems(st))
    /\ stats' = UpdateGlobalStatistics(LoadMenuItems(st), clock)

\* FilterScreen's useState initial values (lines 38-40)
InitialFilter == [selectedCourse |-> "all", searchQuery |-> <<>>, filteredItems |-> <<>>]

\* FilterScreen's course list (lines 45-51)
Courses == {"all"} \cup Categories

\* applyFilters searching the whole list, whatever the selected course
ApplyFiltersSearchAll(items, selectedCourse, searchQuery) ==
    IF Trim(searchQuery) # <<>>
    THEN SearchMenuItems(items, searchQuery)
    ELSE IF selectedCourse # "all"
         THEN SelectSeq(items, LAMBDA it : it.category = selectedCourse)
         ELSE items

\* FilterScreen.applyFilters: the list it hands to setFilteredItems
ApplyFilters(items, selectedCourse, searchQuery) ==
    IF Trim(searchQuery) # <<>>
    THEN SearchMenuItems(IF selectedCourse # "all"
                         THEN SelectSeq(items, LAMBDA it : it.category = selectedCourse)
                         ELSE items,
                         searchQuery)
    ELSE IF selectedCourse # "all"
         THEN SelectSeq(items, LAMBDA it : it.category = selectedCourse)
         ELSE items

\* FilterScreen.getItemCountByCourse
GetItemCountByCourse(items, course) ==
    IF course = "all" THEN Len(items)
    ELSE Len(SelectSeq(items, LAMBDA it : it.category = course))

\* no utility function has been called directly
NoCalc == [fn |-> "none", items |-> <<>>, text |-> <<>>, x |-> Fin(0), result |-> <<>>]

MenuUnchanged == UNCHANGED <<menuItems, averagePrices, stats>>

Init ==
    /\ store = EmptyStore
    /\ clock = 1
    /\ stack = <<"Welcome">>
    /\ form = InitialForm
    /\ menuItems = <<>>
    /\ averagePrices = <<>>
    /\ stats = NoStats
    /\ filterMenu = <<>>
    /\ filter = InitialFilter
    /\ alert = NoAlert
    /\ called = {}
    /\ pending = <<>>
    /\ calc = NoCalc

\* time passes
Tick ==
    /\ clock < MaxClock
    /\ clock' = clock + 1
    /\ UNCHANGED <<calc, store, stack, form, menuItems, averagePrices, stats, filterMenu, filter,
                   alert, called, pending>>

\* GetStarted with navigate('Menu') in place of StackActions.replace('Menu')
GetStartedNavigate ==
    /\ Idle /\ Top = "Welcome"
    /\ stack' = Append(stack, "Menu")
    /\ LoadItems(store)
    /\ called' = {"loadMenuItems"}
    /\ UNCHANGED <<calc, store, clock, form, filterMenu, filter, alert, pending>>

\* WelcomeScreen "Get Started": replace Welcome by Menu; Menu gains focus and loads
GetStarted ==
    /\ Idle /\ Top = "Welcome"
    /\ stack' = <<"Menu">>
    /\ LoadItems(store)
    /\ called' = {"loadMenuItems"}
    /\ UNCHANGED <<calc, store, clock, form, filterMenu, filter, alert, pending>>

\* MenuScreen pull-to-refresh
OnRefresh ==
    /\ Idle /\ Top = "Menu"
    /\ LoadItems(store)
    /\ called' = {"loadMenuItems"}
    /\ UNCHANGED <<calc, store, clock, stack, form, filterMenu, filter, alert, pending>>

\* MenuScreen "+" button: navigate('AddItem')
PressAdd ==
    /\ Idle /\ Top = "Menu"
    /\ stack' = Append(stack, "AddItem")
    /\ form' = InitialForm
    /\ called' = {}
    /\ MenuUnchanged
    /\ UNCHANGED <<calc, store, clock, filterMenu, filter, alert, pending>>

\* MenuScreen.handleEditItem: navigate('AddItem', {item})
HandleEditItem ==
    /\ Idle /\ Top = "Menu"
    /\ \E i \in 1..Len(menuItems) :
          form' = PrefilledForm(menuItems[i])
    /\ stack' = Append(stack, "AddItem")
    /\ called' = {}
    /\ MenuUnchanged
    /\ UNCHANGED <<calc, store, clock, filterMenu, filter, alert, pending>>

\* AddItemScreen text inputs and category buttons
SetName ==
    /\ Idle /\ Top = "AddItem"
    /\ \E t \in NameTexts : form' = [form EXCEPT !.name = t]
    /\ called' = {}
    /\ MenuUnchanged
    /\ UNCHANGED <<calc, store, clock, stack, filterMenu, filter, alert, pending>>

SetDescription ==
    /\ Idle /\ Top = "AddItem"
    /\ \E t \in DescriptionTexts : form' = [form EXCEPT !.description = t]
    /\ called' = {}
    /\ MenuUnchanged
    /\ UNCHANGED <<calc, store, clock, stack, filterMenu, filter, alert, pending>>

SetPrice ==
    /\ Idle /\ Top = "AddItem"
    /\ \E t \in PriceTexts : form' = [form EXCEPT !.price = t]
    /\ called' = {}
    /\ MenuUnchanged
    /\ UNCHANGED <<calc, store, clock, stack, filterMenu, filter, alert, pending>>

\* SetCategory offering MenuScreen's filter keys, "all" among them
SetCategoryWithAll ==
    /\ Idle /\ Top = "AddItem"
    /\ \E c \in Categories \cup {"all"} : form' = [form EXCEPT !.category = c]
    /\ called' = {}
    /\ MenuUnchanged
    /\ UNCHANGED <<calc, store, clock, stack, filterMenu, filter, alert, pending>>

SetCategory ==
    /\ Idle /\ Top = "AddItem"
    /\ \E c \in Categories : form' = [form EXCEPT !.category = c]
    /\ called' = {}
    /\ MenuUnchanged
    /\ UNCHANGED <<calc, store, clock, stack, filterMenu, filter, alert, pending>>

\* room for the item under the model's bound on the collection
Fits(st, item) ==
    item.id \in Ids(LoadMenuItems(st)) \/ Len(LoadMenuItems(st)) < MaxItems

\* AddItemScreen.handleSave, its awaited saveMenuItem included
HandleSave ==
    /\ Idle /\ Top = "AddItem"
    /\ IF MissingFields(form)
       THEN /\ alert' = [kind |-> "Validation Error", arg |-> <<>>]
            /\ called' = {}
            /\ store' = store
       ELSE IF BadPrice(form)
       THEN /\ alert' = [kind |-> "Invalid Price", arg |-> <<>>]
            /\ called' = {}
            /\ store' = store
       ELSE /\ Fits(store, BuildMenuItem(form, clock))
            /\ store' = SaveMenuItem(store, BuildMenuItem(form, clock))
            /\ called' = {"saveMenuItem"}
            /\ alert' = [kind |-> "Success", arg |-> <<>>]
    /\ MenuUnchanged
    /\ UNCHANGED <<calc, clock, stack, form, filterMenu, filter, pending>>

\* leaving AddItem or Filter: the screen unmounts, Menu regains focus and loads
BackToMenu(st) ==
    /\ stack' = SubSeq(stack, 1, Len(stack) - 1)
    /\ form' = InitialForm
    /\ filterMenu' = <<>>
    /\ filter' = InitialFilter
    /\ LoadItems(st)
    /\ called' = {"loadMenuItems"}

\* the OK button of a message alert; after a successful save it calls navigation.goBack()
AlertOk ==
    /\ pending = <<>>
    /\ alert.kind \in {"Validation Error", "Invalid Price", "Success"}
    /\ alert' = NoAlert
    /\ IF alert.kind = "Success"
       THEN BackToMenu(store)
       ELSE /\ called' = {}
            /\ MenuUnchanged
            /\ UNCHANGED <<stack, form, filterMenu, filter>>
    /\ UNCHANGED <<calc, store, clock, pending>>

\* the header back button of AddItem and Filter
HeaderBack ==
    /\ Idle /\ Top \in {"AddItem", "Filter"}
    /\ BackToMenu(store)
    /\ UNCHANGED <<calc, store, clock, alert, pending>>

\* MenuScreen.handleDeleteItem: ask for confirmation
HandleDeleteItem ==
    /\ Idle /\ Top = "Menu"
    /\ \E i \in 1..Len(menuItems) :
          alert' = [kind |-> "Delete Item", arg |-> menuItems[i].id]
    /\ called' = {}
    /\ MenuUnchanged
    /\ UNCHANGED <<calc, store, clock, stack, form, filterMenu, filter, pending>>

CancelDelete ==
    /\ alert.kind = "Delete Item"
    /\ alert' = NoAlert
    /\ called' = {}
    /\ MenuUnchanged
    /\ UNCHANGED <<calc, store, clock, stack, form, filterMenu, filter, pending>>

\* ConfirmDelete without the await on deleteMenuItem: loadItems reads the collection
\* before the delete has written it back
ConfirmDeleteNoAwait ==
    /\ pending = <<>> /\ alert.kind = "Delete Item"
    /\ store' = DeleteMenuItem(store, alert.arg)
    /\ LoadItems(store)
    /\ called' = {"deleteMenuItem", "loadMenuItems"}
    /\ alert' = NoAlert
    /\ UNCHANGED <<calc, clock, stack, form, filterMenu, filter, pending>>

\* the alert's Delete button: deleteMenuItem(id), then loadItems()
ConfirmDelete ==
    /\ pending = <<>> /\ alert.kind = "Delete Item"
    /\ store' = DeleteMenuItem(store, alert.arg)
    /\ LoadItems(store')
    /\ called' = {"deleteMenuItem", "loadMenuItems"}
    /\ alert' = NoAlert
    /\ UNCHANGED <<calc, clock, stack, form, filterMenu, filter, pending>>

\* MenuScreen "Guest Filter" button: FilterScreen mounts and runs loadMenuData
OpenFilter ==
    /\ Idle /\ Top = "Menu"
    /\ stack' = Append(stack, "Filter")
    /\ filterMenu' = LoadMenuItems(store)
    /\ filter' = [InitialFilter EXCEPT
                      !.filteredItems = ApplyFilters(LoadMenuItems(store), "all", <<>>)]
    /\ called' = {"loadMenuItems"}
    /\ MenuUnchanged
    /\ UNCHANGED <<calc, store, clock, form, alert, pending>>

Next ==
    \/ Tick
    \/ GetStarted
    \/ OnRefresh
    \/ PressAdd
    \/ HandleEditItem
    \/ SetName
    \/ SetDescription
    \/ SetPrice
    \/ SetCategory
    \/ HandleSave
    \/ AlertOk
    \/ HeaderBack
    \/ HandleDeleteItem
    \/ CancelDelete
    \/ ConfirmDelete
    \/ OpenFilter

Spec == Init /\ [][Next]_vars

----------------------------------------------------------------------------
(* The same handlers with their awaits as separate steps.  A storage call  *)
(* in flight is a record of pending:                                       *)
(*   kind  "save" (handleSave) or "delete" (the alert's Delete button)     *)
(*   item  the item handed to saveMenuItem (kind "save")                   *)
(*   id    the id handed to deleteMenuItem (kind "delete")                 *)
(*   phase "read": the collection is not read yet; "write": read into      *)
(*         snap, not written back yet; "done": written, handleSave's       *)
(*         Success alert is up; "reload": deleteMenuItem returned and      *)
(*         loadItems has not read yet; "apply": loadItems read into snap   *)
(*   snap  the collection the call read                                    *)
(* While a call is in flight the user can tap Save or Delete again; the    *)
(* description field stays as the form was opened.                         *)
(***************************************************************************)

NoItem == [id |-> <<>>, name |-> <<>>, description |-> <<>>, price |-> Undefined,
           category |-> "appetizers"]

SaveCall(item) ==
    [kind |-> "save", item |-> item, id |-> item.id, phase |-> "read", snap |-> <<>>]

DeleteCall(id) ==
    [kind |-> "delete", item |-> NoItem, id |-> id, phase |-> "read", snap |-> <<>>]

InFlight == {i \in 1..Len(pending) : pending[i].phase # "done"}

Without(seq, i) == SubSeq(seq, 1, i - 1) \o SubSeq(seq, i + 1, Len(seq))

\* handleSave up to its await: validation, then saveMenuItem is called
HandleSaveBegin ==
    /\ alert = NoAlert /\ Top = "AddItem"
    /\ IF MissingFields(form)
       THEN /\ alert' = [kind |-> "Validation Error", arg |-> <<>>]
            /\ called' = {}
            /\ pending' = pending
       ELSE IF BadPrice(form)
       THEN /\ alert' = [kind |-> "Invalid Price", arg |-> <<>>]
            /\ called' = {}
            /\ pending' = pending
       ELSE /\ Len(pending) < MaxPending
            /\ \/ BuildMenuItem(form, clock).id \in Ids(LoadMenuItems(store))
               \/ Len(LoadMenuItems(store)) + Len(pending) < MaxItems
            /\ pending' = Append(pending, SaveCall(BuildMenuItem(form, clock)))
            /\ called' = {"saveMenuItem"}
            /\ alert' = alert
    /\ MenuUnchanged
    /\ UNCHANGED <<calc, store, clock, stack, form, filterMenu, filter>>

\* the alert's Delete button up to its await: deleteMenuItem is called
ConfirmDeleteBegin ==
    /\ alert.kind = "Delete Item"
    /\ Len(pending) < MaxPending
    /\ pending' = Append(pending, DeleteCall(alert.arg))
    /\ called' = {"deleteMenuItem"}
    /\ alert' = NoAlert
    /\ MenuUnchanged
    /\ UNCHANGED <<calc, store, clock, stack, form, filterMenu, filter>>

\* handleDeleteItem while earlier calls are still in flight
HandleDeleteItemAgain ==
    /\ alert = NoAlert /\ Top = "Menu" /\ pending # <<>>
    /\ \E i \in 1..Len(menuItems) :
          alert' = [kind |-> "Delete Item", arg |-> menuItems[i].id]
    /\ called' = {}
    /\ MenuUnchanged
    /\ UNCHANGED <<calc, store, clock, stack, form, filterMenu, filter, pending>>

\* AsyncStorage answers a call's read of the collection
StorageRead(i) ==
    /\ pending[i].phase \in {"read", "reload"}
    /\ pending' = [pending EXCEPT ![i].snap = LoadMenuItems(store),
                                  ![i].phase = IF @ = "read" THEN "write" ELSE "apply"]
    /\ MenuUnchanged
    /\ UNCHANGED <<calc, store, clock, stack, form, filterMenu, filter, alert, called>>

\* WriteBack applied to the collection as stored at the time of the write
WriteBackCurrent(call) ==
    IF call.kind = "save" THEN Upsert(LoadMenuItems(store), call.item)
    ELSE RemoveById(LoadMenuItems(store), call.id)

\* the collection a call writes back
WriteBack(call) ==
    IF call.kind = "save" THEN Upsert(call.snap, call.item)
    ELSE RemoveById(call.snap, call.id)

\* AsyncStorage completes a call's write; the handler continues after its await:
\* handleSave shows Success, the Delete button goes on to loadItems()
StorageWrite(i) ==
    /\ pending[i].phase = "write"
    /\ store' = [set |-> TRUE, items |-> WriteBack(pending[i])]
    /\ IF pending[i].kind = "save"
       THEN /\ pending' = [pending EXCEPT ![i].phase = "done"]
            /\ alert' = [kind |-> "Success", arg |-> <<>>]
            /\ called' = called
       ELSE /\ pending' = [pending EXCEPT ![i].phase = "reload"]
            /\ alert' = alert
            /\ called' = called \cup {"loadMenuItems"}
    /\ MenuUnchanged
    /\ UNCHANGED <<calc, clock, stack, form, filterMenu, filter>>

\* loadItems continues after its await with the collection it read
ApplyLoad(i) ==
    /\ pending[i].phase = "apply"
    /\ menuItems' = pending[i].snap
    /\ averagePrices' = CalculateAveragePriceByCourse(pending[i].snap)
    /\ stats' = UpdateGlobalStatistics(pending[i].snap, clock)
    /\ pending' = Without(pending, i)
    /\ UNCHANGED <<calc, store, clock, stack, form, filterMenu, filter, alert, called>>

\* OK on the Success alert once every call has completed: navigation.goBack()
SuccessOk ==
    /\ InFlight = {} /\ pending # <<>>
    /\ alert.kind = "Success"
    /\ alert' = NoAlert
    /\ pending' = <<>>
    /\ BackToMenu(store)
    /\ UNCHANGED <<calc, store, clock>>

NextConc ==
    \/ Tick
    \/ GetStarted
    \/ PressAdd
    \/ HandleEditItem
    \/ SetName
    \/ SetPrice
    \/ SetCategory
    \/ HandleSaveBegin
    \/ AlertOk
    \/ SuccessOk
    \/ HeaderBack
    \/ HandleDeleteItem
    \/ HandleDeleteItemAgain
    \/ CancelDelete
    \/ ConfirmDeleteBegin
    \/ \E i \in 1..Len(pending) : StorageRead(i)
    \/ \E i \in 1..Len(pending) : StorageWrite(i)
    \/ \E i \in 1..Len(pending) : ApplyLoad(i)

SpecConc == Init /\ [][NextConc]_vars

----------------------------------------------------------------------------
(* Direct calls of the storage and menuCalculations functions on a         *)
(* collection the caller holds (calc.items): calc.fn is the function       *)
(* called last, calc.text its text argument, calc.result what it returned. *)
(* The screens stay as they are at start.                                  *)

SampleItems ==
    { [id |-> <<"1">>, name |-> <<"B", "u", "n">>, description |-> <<"h", "o", "t">>,
       price |-> Fin(1250), category |-> "appetizers"],
      [id |-> <<"2">>, name |-> <<"t", "e", "a">>, description |-> NoText,
       price |-> Undefined, category |-> "beverages"],
      [id |-> <<"3">>, name |-> <<"N", "u", "t">>, description |-> <<"b", " ", "U">>,
       price |-> Fin(2000), category |-> "appetizers"] }

\* the collections of distinct sample items, in every order
ItemCollections ==
    UNION { {c \in [1..n -> SampleItems] : \A i, j \in 1..n : c[i] = c[j] => i = j} :
            n \in 0..Cardinality(SampleItems) }

SearchTerms ==
    { <<>>, <<" ">>, <<"U">>, <<"u", " ">>, <<"h", "o">>, <<"x">> }

ScreensAtStart ==
    /\ stack = <<"Welcome">>
    /\ form = InitialForm
    /\ menuItems = <<>>
    /\ averagePrices = <<>>
    /\ filterMenu = <<>>
    /\ filter = InitialFilter
    /\ alert = NoAlert
    /\ called = {}
    /\ pending = <<>>

ScreensUnchanged ==
    UNCHANGED <<stack, form, menuItems, averagePrices, filterMenu, filter, alert, called, pending>>

InitCalc ==
    /\ store = EmptyStore
    /\ clock = 1
    /\ stats = NoStats
    /\ ScreensAtStart
    /\ \E c \in ItemCollections : calc = [NoCalc EXCEPT !.items = c]

TickCalc ==
    /\ clock < MaxClock
    /\ clock' = clock + 1
    /\ ScreensUnchanged
    /\ UNCHANGED <<store, stats, calc>>

\* saveMenuItem that also refreshes the statistics cache
CallSaveMenuItemRecomputing ==
    /\ \E item \in SampleItems :
          /\ Fits(store, item)
          /\ store' = SaveMenuItem(store, item)
          /\ stats' = UpdateGlobalStatistics(LoadMenuItems(store'), clock)
    /\ calc' = [calc EXCEPT !.fn = "saveMenuItem", !.text = <<>>, !.result = <<>>]
    /\ ScreensUnchanged
    /\ UNCHANGED clock

CallSaveMenuItem ==
    /\ \E item \in SampleItems :
          /\ Fits(store, item)
          /\ store' = SaveMenuItem(store, item)
    /\ calc' = [calc EXCEPT !.fn = "saveMenuItem", !.text = <<>>, !.result = <<>>]
    /\ ScreensUnchanged
    /\ UNCHANGED <<clock, stats>>

CallDeleteMenuItem ==
    /\ \E item \in SampleItems : store' = DeleteMenuItem(store, item.id)
    /\ calc' = [calc EXCEPT !.fn = "deleteMenuItem", !.text = <<>>, !.result = <<>>]
    /\ ScreensUnchanged
    /\ UNCHANGED <<clock, stats>>

CallLoadMenuItems ==
    /\ calc' = [calc EXCEPT !.fn = "loadMenuItems", !.items = LoadMenuItems(store),
                            !.text = <<>>, !.result = <<>>]
    /\ ScreensUnchanged
    /\ UNCHANGED <<store, clock, stats>>

CallUpdateGlobalStatistics ==
    /\ stats' = UpdateGlobalStatistics(calc.items, clock)
    /\ calc' = [calc EXCEPT !.fn = "updateGlobalStatistics", !.text = <<>>, !.result = <<>>]
    /\ ScreensUnchanged
    /\ UNCHANGED <<store, clock>>

CallGetGlobalStatistics ==
    /\ calc' = [calc EXCEPT !.fn = "getGlobalStatistics", !.text = <<>>,
                            !.result = GetGlobalStatistics(stats)]
    /\ ScreensUnchanged
    /\ UNCHANGED <<store, clock, stats>>

CallCalculateAveragePriceByCourse ==
    /\ calc' = [calc EXCEPT !.fn = "calculateAveragePriceByCourse", !.text = <<>>,
                            !.result = CalculateAveragePriceByCourse(calc.items)]
    /\ ScreensUnchanged
    /\ UNCHANGED <<store, clock, stats>>

CallSearchMenuItems ==
    /\ \E term \in SearchTerms :
          calc' = [calc EXCEPT !.fn = "searchMenuItems", !.text = term,
                              !.result = SearchMenuItems(calc.items, term)]
    /\ ScreensUnchanged
    /\ UNCHANGED <<store, clock, stats>>

NextCalc ==
    \/ TickCalc
    \/ CallSaveMenuItem
    \/ CallDeleteMenuItem
    \/ CallLoadMenuItems
    \/ CallUpdateGlobalStatistics
    \/ CallGetGlobalStatistics
    \/ CallCalculateAveragePriceByCourse
    \/ CallSearchMenuItems

SpecCalc == InitCalc /\ [][NextCalc]_vars

----------------------------------------------------------------------------
(* Direct calls of roundPrice and calculateAveragePriceByCourse on doubles: *)
(* calc.x is the number handed to roundPrice, calc.items the collection     *)
(* handed to calculateAveragePriceByCourse.                                 *)

\* the decimal literals whose doubles are handed to roundPrice
RoundLiterals ==
    { [neg |-> FALSE, digits |-> <<>>, scale |-> 0],
      [neg |-> FALSE, digits |-> <<"1", "2", "5">>, scale |-> 3],
      [neg |-> TRUE, digits |-> <<"1", "2", "5">>, scale |-> 3],
      [neg |-> FALSE, digits |-> <<"1", "0", "0", "5">>, scale |-> 3],
      [neg |-> TRUE, digits |-> <<"1", "0", "0", "5">>, scale |-> 3],
      [neg |-> FALSE, digits |-> <<"1", "2", "5", "6", "7">>, scale |-> 3],
      [neg |-> TRUE, digits |-> <<"4">>, scale |-> 3],
      [neg |-> FALSE, digits |-> <<"2", "5">>, scale |-> 1],
      [neg |-> FALSE,
       digits |-> <<"3", "7", "4", "7", "1", "4", "7", "1", "7", "0", "0", "7", "8", "5",
                    "5", "1", "6">>,
       scale |-> 3] }

\* four mains priced 3.40, 0.24, 0.63 and 3.79
PricedMains ==
    LET Main(id, digits, scale) ==
            [id |-> <<id>>, name |-> <<"m">>, description |-> NoText,
             price |-> Dec(FALSE, digits, scale), category |-> "mains"]
    IN  << Main("1", <<"3", "4">>, 1), Main("2", <<"2", "4">>, 2),
           Main("3", <<"6", "3">>, 2), Main("4", <<"3", "7", "9">>, 2) >>

\* the reorderings of a collection
Reorderings(items) ==
    {[i \in 1..Len(items) |-> items[p[i]]] : p \in Permutations(1..Len(items))}

InitFloat ==
    /\ store = EmptyStore
    /\ clock = 1
    /\ stats = NoStats
    /\ ScreensAtStart
    /\ \E c \in Reorderings(PricedMains), l \in RoundLiterals :
          calc = [NoCalc EXCEPT !.items = c, !.x = Dec(l.neg, l.digits, l.scale)]

CallRoundPrice ==
    /\ calc' = [calc EXCEPT !.fn = "roundPrice", !.result = RoundPrice(calc.x)]
    /\ ScreensUnchanged
    /\ UNCHANGED <<store, clock, stats>>

NextFloat ==
    \/ CallRoundPrice
    \/ CallCalculateAveragePriceByCourse

SpecFloat == InitFloat /\ [][NextFloat]_vars

----------------------------------------------------------------------------
(* Direct calls of parsePrice on a text (calc.text). *)

\* the texts of up to three characters over a small alphabet
ShortTexts ==
    UNION { [1..n -> {"1", "5", ".", "-", " ", "e", "a"}] : n \in 0..3 }

PriceInputs ==
    ShortTexts \cup
    { <<"1", "2", ".", "5", "6", "7">>,
      <<"1", ".", "0", "0", "5">>,
      <<"1", "e", "9", "9", "9">>,
      InfinityText,
      <<"-">> \o InfinityText }

InitPrice ==
    /\ store = EmptyStore
    /\ clock = 1
    /\ stats = NoStats
    /\ ScreensAtStart
    /\ \E t \in PriceInputs : calc = [NoCalc EXCEPT !.text = t]

CallParsePrice ==
    /\ calc' = [calc EXCEPT !.fn = "parsePrice", !.result = ParsePrice(calc.text)]
    /\ ScreensUnchanged
    /\ UNCHANGED <<store, clock, stats>>

NextPrice ==
    \/ CallParsePrice

SpecPrice == InitPrice /\ [][NextPrice]_vars

----------------------------------------------------------------------------
(* Direct calls of isValidPrice and formatPrice on a value (calc.x). *)

\* what a price can be: missing, null, NaN, an infinity, the decimal numbers of up to
\* MaxMilli thousandths, and the doubles of the literals handed to roundPrice
PriceValues ==
    {Undefined, Null, NaN, PosInfinity, NegInfinity}
    \cup {Fin(m) : m \in (0 - MaxMilli)..MaxMilli}
    \cup {Dec(l.neg, l.digits, l.scale) : l \in RoundLiterals}

InitValue ==
    /\ store = EmptyStore
    /\ clock = 1
    /\ stats = NoStats
    /\ ScreensAtStart
    /\ \E v \in PriceValues : calc = [NoCalc EXCEPT !.x = v]

CallIsValidPrice ==
    /\ calc' = [calc EXCEPT !.fn = "isValidPrice", !.result = IsValidPrice(calc.x)]
    /\ ScreensUnchanged
    /\ UNCHANGED <<store, clock, stats>>

CallFormatPrice ==
    /\ calc' = [calc EXCEPT !.fn = "formatPrice", !.result = FormatPrice(calc.x)]
    /\ ScreensUnchanged
    /\ UNCHANGED <<store, clock, stats>>

NextValue ==
    \/ CallIsValidPrice
    \/ CallFormatPrice

SpecValue == InitValue /\ [][NextValue]_vars

----------------------------------------------------------------------------
(* FilterScreen over a collection stored by earlier sessions: the guest    *)
(* picks a course and types a search query; the effect on [menuItems,      *)
(* selectedCourse, searchQuery] runs applyFilters after each change.       *)

SearchQueries == SearchTerms

InitFilter ==
    /\ \E c \in ItemCollections : store = [set |-> TRUE, items |-> c]
    /\ clock = 1
    /\ stats = NoStats
    /\ calc = NoCalc
    /\ ScreensAtStart

\* FilterScreen.handleCourseSelection, then the effect's applyFilters
HandleCourseSelection ==
    /\ Idle /\ Top = "Filter"
    /\ \E course \in Courses :
          filter' = [filter EXCEPT
                        !.selectedCourse = course,
                        !.filteredItems = ApplyFilters(filterMenu, course, filter.searchQuery)]
    /\ called' = {}
    /\ MenuUnchanged
    /\ UNCHANGED <<calc, store, clock, stack, form, filterMenu, alert, pending>>

\* the search box's onChangeText = setSearchQuery, then the effect's applyFilters
SetSearchQuery ==
    /\ Idle /\ Top = "Filter"
    /\ \E query \in SearchQueries :
          filter' = [filter EXCEPT
                        !.searchQuery = query,
                        !.filteredItems = ApplyFilters(filterMenu, filter.selectedCourse, query)]
    /\ called' = {}
    /\ MenuUnchanged
    /\ UNCHANGED <<calc, store, clock, stack, form, filterMenu, alert, pending>>

NextFilter ==
    \/ GetStarted
    \/ OpenFilter
    \/ HandleCourseSelection
    \/ SetSearchQuery
    \/ HeaderBack

SpecFilter == InitFilter /\ [][NextFilter]_vars

----------------------------------------------------------------------------
(* The handlers over a medium that can fail.  Each storage call either     *)
(* answers (ok) or throws a StorageError and leaves what is stored as it   *)
(* was; the handler's catch block then runs.  Handlers run one at a time;  *)
(* description and category stay as the form was opened.                   *)

\* Alert.alert('Error', message)
ErrorAlert(message) == [kind |-> "Error", arg |-> <<message>>]

LoadFailed == ErrorAlert("Failed to load menu items. Please try again.")

SaveFailed == ErrorAlert("Failed to save menu item. Please try again.")

DeleteFailed == ErrorAlert("Failed to delete menu item")

\* the mark that a storage function threw a StorageError
Thrown ==
    [loadMenuItems |-> "loadMenuItems: StorageError",
     saveMenuItem |-> "saveMenuItem: StorageError",
     deleteMenuItem |-> "deleteMenuItem: StorageError"]

\* the storage functions a handler called, with the mark of the one that threw
Calls(names, last, ok) == IF ok THEN names ELSE names \cup {Thrown[last]}

\* loadItems taking an unreadable medium for an empty collection
LoadItemsOrFailAsEmpty(st, ok) ==
    /\ LoadItems(IF ok THEN st ELSE EmptyStore)
    /\ alert' = NoAlert

\* MenuScreen.loadItems with its catch block: loadMenuItems answers or throws
LoadItemsOrFail(st, ok) ==
    IF ok
    THEN /\ LoadItems(st)
         /\ alert' = NoAlert
    ELSE /\ MenuUnchanged
         /\ alert' = LoadFailed

GetStartedOrFail ==
    /\ Idle /\ Top = "Welcome"
    /\ stack' = <<"Menu">>
    /\ \E ok \in BOOLEAN :
          /\ LoadItemsOrFail(store, ok)
          /\ called' = Calls({"loadMenuItems"}, "loadMenuItems", ok)
    /\ UNCHANGED <<calc, store, clock, form, filterMenu, filter, pending>>

OnRefreshOrFail ==
    /\ Idle /\ Top = "Menu"
    /\ \E ok \in BOOLEAN :
          /\ LoadItemsOrFail(store, ok)
          /\ called' = Calls({"loadMenuItems"}, "loadMenuItems", ok)
    /\ UNCHANGED <<calc, store, clock, stack, form, filterMenu, filter, pending>>

\* AddItemScreen.handleSave with its catch block
HandleSaveOrFail ==
    /\ Idle /\ Top = "AddItem"
    /\ IF MissingFields(form)
       THEN /\ alert' = [kind |-> "Validation Error", arg |-> <<>>]
            /\ called' = {}
            /\ store' = store
       ELSE IF BadPrice(form)
       THEN /\ alert' = [kind |-> "Invalid Price", arg |-> <<>>]
            /\ called' = {}
            /\ store' = store
       ELSE /\ Fits(store, BuildMenuItem(form, clock))
            /\ \E ok \in BOOLEAN :
                  /\ store' = (IF ok THEN SaveMenuItem(store, BuildMenuItem(form, clock))
                               ELSE store)
                  /\ alert' = (IF ok THEN [kind |-> "Success", arg |-> <<>>] ELSE SaveFailed)
                  /\ called' = Calls({"saveMenuItem"}, "saveMenuItem", ok)
    /\ MenuUnchanged
    /\ UNCHANGED <<calc, clock, stack, form, filterMenu, filter, pending>>

\* leaving AddItem or Filter: Menu regains focus and loadItems runs
BackToMenuOrFail ==
    /\ stack' = SubSeq(stack, 1, Len(stack) - 1)
    /\ form' = InitialForm
    /\ filterMenu' = <<>>
    /\ filter' = InitialFilter
    /\ \E ok \in BOOLEAN :
          /\ LoadItemsOrFail(store, ok)
          /\ called' = Calls({"loadMenuItems"}, "loadMenuItems", ok)

\* the OK button of a message alert
AlertOkOrFail ==
    /\ pending = <<>>
    /\ alert.kind \in {"Validation Error", "Invalid Price", "Success", "Error"}
    /\ IF alert.kind = "Success"
       THEN BackToMenuOrFail
       ELSE /\ alert' = NoAlert
            /\ called' = {}
            /\ MenuUnchanged
            /\ UNCHANGED <<stack, form, filterMenu, filter>>
    /\ UNCHANGED <<calc, store, clock, pending>>

HeaderBackOrFail ==
    /\ Idle /\ Top \in {"AddItem", "Filter"}
    /\ BackToMenuOrFail
    /\ UNCHANGED <<calc, store, clock, pending>>

\* the Delete button going on to loadItems() after deleteMenuItem has thrown
ConfirmDeleteReloading(okDelete, okLoad) ==
    /\ store' = (IF okDelete THEN DeleteMenuItem(store, alert.arg) ELSE store)
    /\ LoadItemsOrFail(store', okLoad)
    /\ called' = (IF okDelete
                  THEN Calls({"deleteMenuItem", "loadMenuItems"}, "loadMenuItems", okLoad)
                  ELSE Calls({"deleteMenuItem", "loadMenuItems"}, "deleteMenuItem", FALSE))

\* the Delete button's try block: deleteMenuItem(id), then loadItems(), which catches
\* its own failure; the catch block when deleteMenuItem throws
ConfirmDeleteTry(okDelete, okLoad) ==
    IF okDelete
    THEN /\ store' = DeleteMenuItem(store, alert.arg)
         /\ LoadItemsOrFail(store', okLoad)
         /\ called' = Calls({"deleteMenuItem", "loadMenuItems"}, "loadMenuItems", okLoad)
    ELSE /\ store' = store
         /\ MenuUnchanged
         /\ alert' = DeleteFailed
         /\ called' = Calls({"deleteMenuItem"}, "deleteMenuItem", FALSE)

ConfirmDeleteOrFail ==
    /\ pending = <<>> /\ alert.kind = "Delete Item"
    /\ \E okDelete, okLoad \in BOOLEAN : ConfirmDeleteTry(okDelete, okLoad)
    /\ UNCHANGED <<calc, clock, stack, form, filterMenu, filter, pending>>

\* FilterScreen mounts and runs loadMenuData, whose catch block only logs
OpenFilterOrFail ==
    /\ Idle /\ Top = "Menu"
    /\ stack' = Append(stack, "Filter")
    /\ \E ok \in BOOLEAN :
          /\ filterMenu' = (IF ok THEN LoadMenuItems(store) ELSE <<>>)
          /\ filter' = [InitialFilter EXCEPT
                            !.filteredItems = ApplyFilters(filterMenu', "all", <<>>)]
          /\ called' = Calls({"loadMenuItems"}, "loadMenuItems", ok)
    /\ MenuUnchanged
    /\ UNCHANGED <<calc, store, clock, form, alert, pending>>

NextFail ==
    \/ Tick
    \/ GetStartedOrFail
    \/ OnRefreshOrFail
    \/ PressAdd
    \/ HandleEditItem
    \/ SetName
    \/ SetPrice
    \/ HandleSaveOrFail
    \/ AlertOkOrFail
    \/ HeaderBackOrFail
    \/ HandleDeleteItem
    \/ CancelDelete
    \/ ConfirmDeleteOrFail
    \/ OpenFilterOrFail

SpecFail == Init /\ [][NextFail]_vars

----------------------------------------------------------------------------
(* Adding and editing with every await as a separate step, the load that   *)
(* Menu starts on regaining focus included (a record of pending of kind    *)
(* "load").  The user can leave AddItem by the header back button while a  *)
(* save is in flight.  AsyncStorage answers every call in the end and a    *)
(* handler continues once its call is answered: weak fairness of the       *)
(* storage steps.  Nothing obliges the user to act.  Date.now() stays at   *)
(* its first value.                                                        *)

LoadCall ==
    [kind |-> "load", item |-> NoItem, id |-> <<>>, phase |-> "reload", snap |-> <<>>]

\* the calls of pending that have not completed
StillPending == SelectSeq(pending, LAMBDA call : call.phase # "done")

\* the header back button of AddItem, a save in flight or not: AddItem unmounts, Menu
\* regains focus and calls loadItems
HeaderBackInFlight ==
    /\ alert = NoAlert /\ Top = "AddItem"
    /\ Len(pending) < MaxPending
    /\ stack' = SubSeq(stack, 1, Len(stack) - 1)
    /\ form' = InitialForm
    /\ pending' = Append(pending, LoadCall)
    /\ called' = {"loadMenuItems"}
    /\ MenuUnchanged
    /\ UNCHANGED <<calc, store, clock, filterMenu, filter, alert>>

\* OK on the Success alert: navigation.goBack() of the AddItem screen that raised it;
\* when that screen has been left already there is nothing to go back from
SuccessOkInFlight ==
    /\ alert.kind = "Success"
    /\ alert' = NoAlert
    /\ IF Top = "AddItem"
       THEN /\ Len(StillPending) < MaxPending
            /\ stack' = SubSeq(stack, 1, Len(stack) - 1)
            /\ form' = InitialForm
            /\ pending' = Append(StillPending, LoadCall)
            /\ called' = {"loadMenuItems"}
       ELSE /\ pending' = StillPending
            /\ called' = {}
            /\ UNCHANGED <<stack, form>>
    /\ MenuUnchanged
    /\ UNCHANGED <<calc, store, clock, filterMenu, filter>>

AnswerRead == \E i \in 1..Len(pending) : StorageRead(i)

AnswerWrite == \E i \in 1..Len(pending) : StorageWrite(i)

ContinueLoad == \E i \in 1..Len(pending) : ApplyLoad(i)

NextLive ==
    \/ GetStarted
    \/ PressAdd
    \/ HandleEditItem
    \/ SetName
    \/ SetPrice
    \/ HandleSaveBegin
    \/ AlertOk
    \/ HeaderBackInFlight
    \/ SuccessOkInFlight
    \/ AnswerRead
    \/ AnswerWrite
    \/ ContinueLoad

SpecLive ==
    /\ Init
    /\ [][NextLive]_vars
    /\ WF_vars(AnswerRead)
    /\ WF_vars(AnswerWrite)
    /\ WF_vars(ContinueLoad)

----------------------------------------------------------------------------
(* Properties *)

Stored == LoadMenuItems(store)

StoredAfter == LoadMenuItems(store')

\* C1: after any sequence of upserts and deletes run one at a time from the empty
\* store, no two items of the stored collection have the same id.
C1_UniqueIds ==
    \A i, j \in 1..Len(store.items) :
        store.items[i].id = store.items[j].id => i = j

\* an edit of one of two stored items has just been saved
C1_Witness ==
    /\ Len(store.items) = 2
    /\ form.isEditing
    /\ alert.kind = "Success"

\* C2: saving an item x whose id is not in the stored collection C, then loading,
\* gives the items of C unchanged and in order, followed by x.
C2_AppendsNew ==
    [][(/\ HandleSave
        /\ called' = {"saveMenuItem"}
        /\ ~form.isEditing
        /\ NatToText(clock) \notin Ids(Stored))
       => /\ Len(StoredAfter) = Len(Stored) + 1
          /\ SubSeq(StoredAfter, 1, Len(Stored)) = Stored
          /\ StoredAfter[Len(StoredAfter)] =
                [id |-> NatToText(clock),
                 name |-> Trim(form.name),
                 description |-> Trim(form.description),
                 price |-> ParsePrice(form.price),
                 category |-> form.category]]_vars

C2_Witness ==
    /\ alert.kind = "Success"
    /\ ~form.isEditing
    /\ Len(store.items) = 2
    /\ Len(menuItems) = 1
    /\ store.items[2].id = NatToText(clock)

\* C3: saving an item x whose id already occurs in the stored collection C, then
\* loading, gives a collection of the same length with x at the position of the old
\* item of that id and every other entry unchanged at its position.
C3_ReplacesInPlace ==
    [][(/\ HandleSave
        /\ called' = {"saveMenuItem"}
        /\ form.isEditing
        /\ form.editingId \in Ids(Stored))
       => /\ Len(StoredAfter) = Len(Stored)
          /\ \A i \in 1..Len(Stored) :
                IF Stored[i].id = form.editingId
                THEN StoredAfter[i] =
                        [id |-> form.editingId,
                         name |-> Trim(form.name),
                         description |-> Trim(form.description),
                         price |-> ParsePrice(form.price),
                         category |-> form.category]
                ELSE StoredAfter[i] = Stored[i]]_vars

C3_Witness ==
    /\ alert.kind = "Success"
    /\ form.isEditing
    /\ Len(store.items) = 2
    /\ Len(menuItems) = 2
    /\ store.items[1].id = form.editingId
    /\ store.items[1] # menuItems[1]
    /\ store.items[2] = menuItems[2]

\* C4: deleting an id X present in the stored collection C, then loading, gives C
\* without the item whose id is X; the other items are unchanged, in their order.
C4_DeleteRemovesExactlyOne ==
    [][(ConfirmDelete /\ alert.arg \in Ids(Stored))
       => /\ StoredAfter = SelectSeq(Stored, LAMBDA it : it.id # alert.arg)
          /\ Len(StoredAfter) = Len(Stored) - 1
          /\ menuItems' = StoredAfter]_vars

C4_Witness ==
    /\ called = {"deleteMenuItem", "loadMenuItems"}
    /\ store.set
    /\ Len(store.items) = 1
    /\ menuItems = store.items

\* C5: deleting an id that is not in the stored collection completes without an
\* error and leaves the stored collection as it was.
C5_DeleteAbsentIsNoOp ==
    [][\A i \in 1..Len(pending) :
          (/\ StorageWrite(i)
           /\ pending[i].kind = "delete"
           /\ pending[i].snap = Stored
           /\ pending[i].id \notin Ids(Stored))
          => /\ StoredAfter = Stored
             /\ alert' = alert
             /\ pending'[i].phase = "reload"]_vars

C5_Witness ==
    \E i \in 1..Len(pending) :
        /\ pending[i].kind = "delete"
        /\ pending[i].phase = "reload"
        /\ pending[i].id \notin Ids(pending[i].snap)
        /\ pending[i].snap # <<>>
        /\ store.items = pending[i].snap

\* the handlers of the run-to-completion specification that load and do not write
LoadingStep == GetStarted \/ OnRefresh \/ HeaderBack \/ (AlertOk /\ alert.kind = "Success")

\* C6: loading gives the empty sequence when nothing has been stored, otherwise the
\* collection written by the latest save or delete, and never changes what is stored.
C6_LoadReturnsLastWritten ==
    [][/\ LoadingStep =>
            /\ menuItems' = (IF store.set THEN store.items ELSE <<>>)
            /\ store' = store
       /\ OpenFilter =>
            /\ filterMenu' = (IF store.set THEN store.items ELSE <<>>)
            /\ store' = store]_vars

C6_Witness ==
    /\ called = {"loadMenuItems"}
    /\ Top = "Menu"
    /\ Len(store.items) = 2
    /\ menuItems = store.items

\* C7: of two saves with different new ids, when both read the collection before
\* either writes it back, the later write overwrites the earlier one and the stored
\* collection lacks the first item; when the second reads after the first has
\* written, both items are stored.
C7_LostUpdate ==
    [][\A a, b \in 1..Len(pending) :
          (/\ StorageWrite(b)
           /\ pending[a].kind = "save" /\ pending[a].phase = "done"
           /\ pending[b].kind = "save"
           /\ pending[a].id # pending[b].id
           /\ pending[a].id \notin Ids(pending[a].snap)
           /\ pending[b].id \notin Ids(pending[b].snap)
           /\ Stored = Append(pending[a].snap, pending[a].item))
          => /\ pending[b].snap = pending[a].snap
                => /\ StoredAfter = Append(pending[a].snap, pending[b].item)
                   /\ pending[a].id \notin Ids(StoredAfter)
             /\ pending[b].snap = Stored
                => /\ StoredAfter = Append(Stored, pending[b].item)
                   /\ {pending[a].id, pending[b].id} \subseteq Ids(StoredAfter)]_vars

\* the later of two overlapping saves has written: the first item is lost
C7_Witness ==
    /\ Len(pending) = 2
    /\ pending[1].kind = "save" /\ pending[1].phase = "done"
    /\ pending[2].kind = "save" /\ pending[2].phase = "done"
    /\ pending[1].id # pending[2].id
    /\ pending[1].snap = pending[2].snap
    /\ pending[1].id \notin Ids(store.items)
    /\ pending[2].id \in Ids(store.items)

C9_StoredPricesCentRounded ==
    \A i \in 1..Len(store.items) :
        /\ store.items[i].price.kind = "finite"
        /\ store.items[i].price.milli >= 0
        /\ store.items[i].price.milli % 10 = 0

\* C10: the category of every stored item is one of the four courses.
C10_StoredCategoriesKnown ==
    \A i \in 1..Len(store.items) :
        store.items[i].category \in {"appetizers", "mains", "desserts", "beverages"}

\* an edit that moved the first item to another course has just been saved
C10_Witness ==
    /\ Len(store.items) = 2
    /\ form.isEditing
    /\ alert.kind = "Success"
    /\ store.items[1].id = form.editingId
    /\ store.items[1].category = "beverages"
    /\ menuItems[1].category = "mains"

\* the price of an item, a missing one counted as 0
PriceOrZero(item) == IF item.price = Undefined THEN Fin(0) ELSE item.price

RECURSIVE Total(_)
\* the sum of the prices of items, taken in order
Total(items) ==
    IF items = <<>> THEN Fin(0)
    ELSE Add(Total(SubSeq(items, 1, Len(items) - 1)), PriceOrZero(items[Len(items)]))

C12_OnlyRecomputeChangesCache ==
    [][\/ calc'.fn = "updateGlobalStatistics"
          /\ stats' = UpdateGlobalStatistics(calc.items, clock)
       \/ /\ stats' = stats
          /\ calc'.fn = "getGlobalStatistics" => calc'.result = GetGlobalStatistics(stats)]_vars

\* a snapshot taken after the stored collection changed, with no recompute in between:
\* it still reports the collection that was loaded and recomputed before the change
C12_Witness ==
    /\ calc.fn = "getGlobalStatistics"
    /\ store.set
    /\ stats.lastCalculationTime # 0
    /\ calc.items # LoadMenuItems(store)
    /\ calc.result.totalMenuItems = Len(calc.items)
    /\ calc.result.totalMenuItems # Len(LoadMenuItems(store))

\* C13: getGlobalStatistics returns averageItemPrice = roundPrice(totalMenuValue /
\* totalMenuItems) when totalMenuItems > 0 and 0 when totalMenuItems = 0, in every
\* state of the cache, the one before any updateGlobalStatistics included
C13_AverageItemPrice ==
    /\ GetGlobalStatistics(NoStats).averageItemPrice = Fin(0)
    /\ calc.fn = "getGlobalStatistics"
        => calc.result.averageItemPrice =
             IF stats.totalMenuItems > 0
             THEN RoundedQuotient(stats.totalMenuValue, stats.totalMenuItems)
             ELSE Fin(0)

\* a snapshot of two items worth 1.25: the average 0.625 is reported as 0.63
C13_Witness ==
    /\ calc.fn = "getGlobalStatistics"
    /\ stats.totalMenuItems = 2
    /\ stats.totalMenuValue = Fin(1250)
    /\ calc.result.averageItemPrice = Fin(630)

\* C14: calculateAveragePriceByCourse(items) has exactly the categories occurring in
\* items as its keys, and maps each to roundPrice(sum of the category's prices / number
\* of the category's items)
C14_AveragesByCategory ==
    calc.fn = "calculateAveragePriceByCourse"
        => /\ DOMAIN calc.result = {calc.items[i].category : i \in 1..Len(calc.items)}
           /\ \A c \in DOMAIN calc.result :
                LET of == SelectSeq(calc.items, LAMBDA it : it.category = c)
                IN  calc.result[c] = RoundedQuotient(Total(of), Len(of))

\* the averages of two appetizers (1.25 and 2.00) and one beverage: two keys only
C14_Witness ==
    /\ calc.fn = "calculateAveragePriceByCourse"
    /\ Len(calc.items) = 3
    /\ DOMAIN calc.result = {"appetizers", "beverages"}
    /\ calc.result["appetizers"] = Fin(1630)
    /\ calc.result["beverages"] = Fin(0)

\* C16: searchMenuItems with an empty or whitespace-only term returns the input
\* collection, same items in the same order, and leaves the caller's collection alone
C16_BlankTermReturnsInput ==
    [][(calc'.fn = "searchMenuItems" /\ Trim(calc'.text) = <<>>)
        => /\ calc'.result = calc.items
           /\ calc'.items = calc.items]_vars

\* a search of three items for a single space
C16_Witness ==
    /\ calc.fn = "searchMenuItems"
    /\ calc.text = <<" ">>
    /\ Len(calc.items) = 3
    /\ calc.result = calc.items

\* item matches term t: its name, or its description when it has one, contains t,
\* letter case ignored
Matches(item, t) ==
    \/ Includes(ToLowerCase(item.name), ToLowerCase(t))
    \/ item.description # NoText /\ Includes(ToLowerCase(item.description), ToLowerCase(t))

\* C17 as stated: searchMenuItems with a non-blank term returns exactly the items whose
\* name or description contains the term, case-insensitively, in their order
C17_SearchByTermAsTyped ==
    [][(calc'.fn = "searchMenuItems" /\ Trim(calc'.text) # <<>>)
        => /\ calc'.result = SelectSeq(calc.items, LAMBDA it : Matches(it, calc'.text))
           /\ calc'.items = calc.items]_vars

\* C17: searchMenuItems with a non-blank term returns exactly the items whose name or
\* description contains the term with its leading and trailing whitespace removed,
\* case-insensitively, in their original order; an item without description is matched
\* on its name alone; the caller's collection is left alone
C17_SearchByTrimmedTerm ==
    [][(calc'.fn = "searchMenuItems" /\ Trim(calc'.text) # <<>>)
        => /\ calc'.result = SelectSeq(calc.items, LAMBDA it : Matches(it, Trim(calc'.text)))
           /\ calc'.items = calc.items]_vars

\* a search for "u " among three items finds the two whose name or description holds
\* a u, and not the item without description
C17_Witness ==
    /\ calc.fn = "searchMenuItems"
    /\ calc.text = <<"u", " ">>
    /\ Len(calc.items) = 3
    /\ Len(calc.result) = 2
    /\ \A i \in 1..2 : calc.result[i].description # NoText

\* C15: calculateAveragePriceByCourse gives the same mapping for every reordering of
\* the collection
C15_AveragesOrderIndependent ==
    calc.fn = "calculateAveragePriceByCourse"
        => \A c \in Reorderings(calc.items) : CalculateAveragePriceByCourse(c) = calc.result

\* C18: roundPrice(roundPrice(x)) = roundPrice(x) for every finite x
C18_RoundIdempotent ==
    calc.fn = "roundPrice" => RoundPrice(calc.result) = calc.result

\* the multiple of 0.01 nearest to the double x, a value halfway between two taken
\* away from zero: x * 100 exactly, rounded half away from zero, over 100
NearestCentAwayFromZero(x) ==
    IF x.man = <<>> THEN x
    ELSE LET hundredfold == MulSmall(x.man, 100)
             cents == IF x.exp >= 0 THEN ShiftLeft(hundredfold, x.exp)
                      ELSE LET s == ShiftRight(hundredfold, (0 - x.exp) - 1)
                               whole == Trimmed(DivRem(s.q, 2).q)
                           IN  IF IsOdd(s.q) THEN AddBig(whole, Big(1)) ELSE whole
         IN  Quotient(x.neg, cents, 0, 100)

\* C19: roundPrice(x) is the multiple of 0.01 nearest to x, a value exactly halfway
\* between two cents going away from zero, for positive and negative x alike
C19_RoundHalfAwayFromZero ==
    (calc.fn = "roundPrice" /\ calc.result.kind = "double")
        => calc.result = NearestCentAwayFromZero(calc.x)

\* C20: parsePrice returns 0 when parseFloat gives no finite number or a negative one,
\* and roundPrice(parsed) otherwise, so its result is finite, not negative and a whole
\* number of cents
C20_ParseFiniteNonNegative ==
    calc.fn = "parsePrice"
        => LET parsed == ParseFloat(calc.text)
           IN  /\ calc.result = IF parsed.kind # "finite" \/ parsed.milli < 0 THEN Fin(0)
                                ELSE RoundPrice(parsed)
               /\ calc.result.kind = "finite"
               /\ calc.result.milli >= 0
               /\ calc.result.milli % 10 = 0

IsAmountText(t) ==
    LET u == IF t # <<>> /\ Head(t) = "-" THEN Tail(t) ELSE t
    IN  /\ Len(u) >= 4
        /\ u[Len(u) - 2] = "."
        /\ \A i \in 1..Len(u) : i # Len(u) - 2 => IsDigit(u[i])

\* C22: formatPrice returns R followed by a number with exactly two decimal digits,
\* and exactly R0.00 for undefined, null and NaN.
C22_FormatTwoDecimals ==
    calc.fn = "formatPrice" =>
        /\ calc.result # <<>>
        /\ Head(calc.result) = "R"
        /\ IsAmountText(Tail(calc.result))
        /\ calc.x.kind \in {"undefined", "null", "NaN"} =>
               calc.result = <<"R", "0", ".", "0", "0">>

\* C29: on FilterScreen, once applyFilters has run, filteredItems is the subsequence of
\* menuItems, order kept, of the items in the selected course ("all": every item) that
\* match the search query (blank query: every item); the shown count is at most the
\* total, and the counts of the four courses add up to the count shown for "all"
C29_FilteredIsSubsequence ==
    Top = "Filter" =>
        /\ filter.filteredItems =
              SelectSeq(filterMenu, LAMBDA it :
                  /\ filter.selectedCourse = "all" \/ it.category = filter.selectedCourse
                  /\ Trim(filter.searchQuery) = <<>> \/ Matches(it, Trim(filter.searchQuery)))
        /\ Len(filter.filteredItems) <= Len(filterMenu)
        /\ GetItemCountByCourse(filterMenu, "appetizers")
             + GetItemCountByCourse(filterMenu, "mains")
             + GetItemCountByCourse(filterMenu, "desserts")
             + GetItemCountByCourse(filterMenu, "beverages")
           = GetItemCountByCourse(filterMenu, "all")

\* three items, course appetizers, query "ho": of the two appetizers only the one
\* described as hot is shown
C29_Witness ==
    /\ Top = "Filter"
    /\ Len(filterMenu) = 3
    /\ filter.selectedCourse = "appetizers"
    /\ filter.searchQuery = <<"h", "o">>
    /\ Len(filter.filteredItems) = 1
    /\ filter.filteredItems[1].id = <<"1">>

\* Welcome is not on the navigation stack s
WelcomeGone(s) == \A i \in 1..Len(s) : s[i] # "Welcome"

\* C25: the app starts on Welcome alone; Get Started replaces it, so that whenever
\* another screen is shown Welcome is not on the stack, and once it is off the stack
\* no navigation puts it back
C25_WelcomeNeverReturns ==
    /\ stack = <<"Welcome">>
    /\ [](stack = <<"Welcome">> \/ WelcomeGone(stack))
    /\ [][WelcomeGone(stack) => WelcomeGone(stack')]_vars

\* back on Menu after an item was added on AddItem: the stack is Menu alone
C25_Witness ==
    /\ stack = <<"Menu">>
    /\ called = {"loadMenuItems"}
    /\ Len(menuItems) = 1

\* a load of MenuScreen is in flight: loadItems awaits loadMenuItems or has not yet
\* continued with what it read
LoadInFlight == \E i \in 1..Len(pending) : pending[i].phase \in {"reload", "apply"}

C26_NewItemIsAppended ==
    \A i \in 1..Len(pending) :
        (pending[i].kind = "save" /\ pending[i].phase = "write" /\ ~form.isEditing)
            => pending[i].id \notin Ids(pending[i].snap)

\* C30: one filled-in add form starts at most one saveMenuItem: while a save is in
\* flight, or complete with its Success alert not yet dismissed, there is no second one
C30_OneSavePerForm ==
    Cardinality({i \in 1..Len(pending) : pending[i].kind = "save"}) <= 1

\* one visit of the add form, Save tapped twice, has stored two items
TwoItemsFromOneForm ==
    /\ Len(pending) = 2
    /\ \A i \in 1..2 : pending[i].kind = "save" /\ pending[i].phase = "done"
    /\ ~form.isEditing
    /\ Len(store.items) = 2
    /\ store.items[1].id # store.items[2].id

\* a storage function threw in the handler that ran last
Threw(name) == Thrown[name] \in called

\* C23: when the medium cannot be read, loadMenuItems fails and the failure reaches
\* the caller's catch block rather than looking like an empty collection: MenuScreen
\* keeps its list and shows the load error, FilterScreen has no list to show; the load
\* leaves what is stored as it is, and no second load is started
C23_LoadFailureReachesCaller ==
    [][(Threw("loadMenuItems"))'
        => /\ store' = store \/ "deleteMenuItem" \in called'
           /\ pending' = <<>>
           /\ IF Top' = "Filter"
              THEN filterMenu' = <<>> /\ alert' = NoAlert
              ELSE menuItems' = menuItems /\ alert' = LoadFailed]_vars

\* a refresh of a Menu showing two items fails: both stay on screen under the alert
C23_Witness ==
    /\ Threw("loadMenuItems")
    /\ Top = "Menu"
    /\ alert = LoadFailed
    /\ Len(menuItems) = 2
    /\ menuItems = store.items

\* C28: when loadMenuItems fails during loadItems, menuItems, averagePrices and the
\* statistics keep their values and an error alert is shown; when deleteMenuItem
\* fails, no reload is started, the list and the stored collection stay as they were
\* and an error alert is shown
C28_FailureKeepsState ==
    [][/\ (Threw("loadMenuItems") /\ Top = "Menu")'
            => /\ menuItems' = menuItems
               /\ averagePrices' = averagePrices
               /\ stats' = stats
               /\ alert'.kind = "Error"
       /\ (Threw("deleteMenuItem"))'
            => /\ "loadMenuItems" \notin called'
               /\ store' = store
               /\ menuItems' = menuItems
               /\ averagePrices' = averagePrices
               /\ stats' = stats
               /\ alert' = DeleteFailed]_vars

\* the delete of one of two shown items failed: nothing was reloaded and both are
\* still stored and shown
C28_Witness ==
    /\ Threw("deleteMenuItem")
    /\ alert = DeleteFailed
    /\ Len(menuItems) = 2
    /\ menuItems = store.items

\* C24: after an item is added or edited and Menu is shown again, Menu's list comes
\* to equal the stored collection, the saved item included, in whatever order the
\* save, the return navigation and the focus-triggered load occur: whenever Menu is
\* shown with a list that differs from what is stored, the list later equals what is
\* stored (or the user has left Menu again)
C24_MenuCatchesUp ==
    (Top = "Menu" /\ menuItems # LoadMenuItems(store))
        ~> (Top # "Menu" \/ menuItems = LoadMenuItems(store))

\* Menu is shown without the saved item and nothing is in flight that would load it
MenuStaleForGood ==
    /\ Top = "Menu"
    /\ Len(LoadMenuItems(store)) = 1
    /\ menuItems = <<>>
    /\ StillPending = <<>>

====
